---------------------------- MODULE Spec2Model ----------------------------
(***************************************************************************)
(* manifoldco/autotagger: a GitHub Action that, on a merged pull request,   *)
(* lists the repository's tags, resolves the highest semantic version,     *)
(* checks the changed files against FILE_REGEXP, creates the next patch    *)
(* tag and comments on the pull request (src/main.go).                     *)
(*                                                                         *)
(* Strings the program parses or formats (ref names, tag names, file       *)
(* names) are sequences of one-character strings, so that trimming,        *)
(* parsing and formatting are computed and not assumed.  The hosting       *)
(* service (go-github) and the semver library (hashicorp/go-version) are   *)
(* modelled at the call sites of main.go by what the calls return.         *)
(***************************************************************************)
EXTENDS Integers, Sequences, FiniteSets, TLC

\* ------------------------------------------------------------ bounds
\* number of autotagger processes (runs of main) in one behaviour
NumRuns == 2
\* refs returned per ListRefs page by the hosting service
PageSize == 1
\* tags already in the repository before the first run
MaxInitTags == 2
\* changed files reported by one commit comparison
MaxFiles == 2

\* ------------------------------------------------------------ constants
\* main.go:27  exConfig = 78
EX_CONFIG == 78
\* main.go:28  fatalExit = 1
FATAL_EXIT == 1
\* main.go:112/134: main returns, the process exits 0
EXIT_OK == 0

Runs == 1..NumRuns

\* ------------------------------------------------------------ strings
Digits == <<"0", "1", "2", "3", "4", "5", "6", "7", "8", "9">>
DigitSet == {Digits[i] : i \in 1..10}
AlphaSet == {"a", "b", "c", "d", "e", "f", "g", "h", "i", "j", "k", "l", "m",
             "n", "o", "p", "q", "r", "s", "t", "u", "v", "w", "x", "y", "z"}
\* [0-9A-Za-z\-~] of the semver pattern
IdentSet == DigitSet \cup AlphaSet \cup {"-", "~"}

DigitVal(c) == CHOOSE i \in 0..9 : Digits[i + 1] = c

\* strings.HasPrefix
HasPrefix(s, p) == Len(s) >= Len(p) /\ SubSeq(s, 1, Len(p)) = p
\* strings.HasSuffix
HasSuffix(s, p) == Len(s) >= Len(p) /\ SubSeq(s, Len(s) - Len(p) + 1, Len(s)) = p
\* strings.TrimPrefix: s without the leading p, or s unchanged
TrimPrefix(s, p) == IF HasPrefix(s, p) THEN SubSeq(s, Len(p) + 1, Len(s)) ELSE s

\* index of the first c in s, 0 when absent
IndexOf(s, c) ==
  IF \E i \in 1..Len(s) : s[i] = c
  THEN CHOOSE i \in 1..Len(s) : s[i] = c /\ \A j \in 1..(i - 1) : s[j] # c
  ELSE 0

\* strings.Split(s, ".")
RECURSIVE SplitDots(_)
SplitDots(s) ==
  LET p == IndexOf(s, ".")
  IN IF p = 0 THEN <<s>>
     ELSE <<SubSeq(s, 1, p - 1)>> \o SplitDots(SubSeq(s, p + 1, Len(s)))

\* strconv.ParseInt(str, 10, 64) of a digit string
RECURSIVE ParseInt(_)
ParseInt(s) ==
  IF Len(s) = 0 THEN 0
  ELSE 10 * ParseInt(SubSeq(s, 1, Len(s) - 1)) + DigitVal(s[Len(s)])

\* %d of a non-negative integer
RECURSIVE FormatInt(_)
FormatInt(n) ==
  IF n < 10 THEN <<Digits[n + 1]>>
  ELSE FormatInt(n \div 10) \o <<Digits[(n % 10) + 1]>>

\* strings.Join(parts, ".") of formatted integers
RECURSIVE JoinDots(_)
JoinDots(segs) ==
  IF Len(segs) = 0 THEN <<>>
  ELSE IF Len(segs) = 1 THEN FormatInt(segs[1])
  ELSE FormatInt(segs[1]) \o <<".">> \o JoinDots(Tail(segs))


\* ------------------------------------------------------------ go-version
\* The characters of ref names in byte order, for string comparison.
ByteOrder ==
  <<"+", "-", ".", "/", "0", "1", "2", "3", "4", "5", "6", "7", "8", "9",
    "a", "b", "c", "d", "e", "f", "g", "h", "i", "j", "k", "l", "m",
    "n", "o", "p", "q", "r", "s", "t", "u", "v", "w", "x", "y", "z", "~">>
CharRank(c) == IndexOf(ByteOrder, c)

\* Go's a > b on strings of identifier characters
RECURSIVE StrGreater(_, _)
StrGreater(a, b) ==
  IF Len(a) = 0 THEN FALSE
  ELSE IF Len(b) = 0 THEN TRUE
  ELSE IF a[1] # b[1] THEN CharRank(a[1]) > CharRank(b[1])
  ELSE StrGreater(Tail(a), Tail(b))

IsDigits(s) == Len(s) > 0 /\ \A i \in 1..Len(s) : s[i] \in DigitSet

\* [0-9A-Za-z\-~]+(\.[0-9A-Za-z\-~]+)* : dot-separated non-empty identifiers
IsIdentList(s) ==
  LET parts == SplitDots(s)
  IN \A i \in 1..Len(parts) :
        /\ Len(parts[i]) > 0
        /\ \A j \in 1..Len(parts[i]) : parts[i][j] \in IdentSet

\* number of leading characters of s that are digits or dots
RECURSIVE CoreLen(_)
CoreLen(s) ==
  IF Len(s) > 0 /\ s[1] \in DigitSet \cup {"."} THEN 1 + CoreLen(Tail(s)) ELSE 0

\* segments of "1.2.3", right-padded with zeros to three (go-version newVersion)
PadSegments(segs) ==
  segs \o [i \in 1..(IF Len(segs) < 3 THEN 3 - Len(segs) ELSE 0) |-> 0]

NoVersion == [ok |-> FALSE]

\* version.NewSemver(s): ^v?CORE(-PRE|PRE)?(\+META)?$ ; NoVersion is the error
NewSemver(s) ==
  LET plus == IndexOf(s, "+")
      head == IF plus = 0 THEN s ELSE SubSeq(s, 1, plus - 1)
      meta == IF plus = 0 THEN <<>> ELSE SubSeq(s, plus + 1, Len(s))
      body == IF Len(head) > 0 /\ head[1] = "v" THEN Tail(head) ELSE head
      n    == CoreLen(body)
      core == SubSeq(body, 1, n)
      rest == SubSeq(body, n + 1, Len(body))
      pre  == IF Len(rest) > 0 /\ rest[1] = "-" THEN Tail(rest) ELSE rest
      parts == SplitDots(core)
      coreOk == n > 0 /\ \A i \in 1..Len(parts) : IsDigits(parts[i])
      preOk == \/ Len(rest) = 0
               \/ /\ rest[1] = "-"
                  /\ Len(pre) > 0
                  /\ IsIdentList(pre)
               \/ /\ rest[1] \in AlphaSet \cup {"~"}
                  /\ IsIdentList(pre)
      metaOk == plus = 0 \/ (Len(meta) > 0 /\ IsIdentList(meta))
  IN IF coreOk /\ preOk /\ metaOk
     THEN [ok |-> TRUE,
           segments |-> PadSegments([i \in 1..Len(parts) |-> ParseInt(parts[i])]),
           pre |-> pre,
           metadata |-> meta]
     ELSE NoVersion

\* (*Version).Segments
Segments(v) == v.segments

\* (*Version).String: segments, then -pre, then +metadata
String(v) ==
  JoinDots(v.segments)
    \o (IF Len(v.pre) > 0 THEN <<"-">> \o v.pre ELSE <<>>)
    \o (IF Len(v.metadata) > 0 THEN <<"+">> \o v.metadata ELSE <<>>)

AllZero(segs) == \A i \in 1..Len(segs) : segs[i] = 0

\* go-version comparePart: numeric identifiers sort below alphanumeric ones
ComparePart(a, b) ==
  IF a = b THEN 0
  ELSE IF Len(a) = 0 THEN (IF IsDigits(b) THEN -1 ELSE 1)
  ELSE IF Len(b) = 0 THEN (IF IsDigits(a) THEN 1 ELSE -1)
  ELSE IF IsDigits(a) /\ ~IsDigits(b) THEN -1
  ELSE IF ~IsDigits(a) /\ IsDigits(b) THEN 1
  ELSE IF ~IsDigits(a) /\ ~IsDigits(b) /\ StrGreater(a, b) THEN 1
  ELSE IF IsDigits(a) /\ IsDigits(b) /\ ParseInt(a) > ParseInt(b) THEN 1
  ELSE -1

\* go-version comparePrereleases: part by part, a missing part is ""
RECURSIVE ComparePartsFrom(_, _, _)
ComparePartsFrom(pa, pb, i) ==
  IF i > Len(pa) /\ i > Len(pb) THEN 0
  ELSE LET a == IF i <= Len(pa) THEN pa[i] ELSE <<>>
           b == IF i <= Len(pb) THEN pb[i] ELSE <<>>
           c == ComparePart(a, b)
       IN IF c # 0 THEN c ELSE ComparePartsFrom(pa, pb, i + 1)

ComparePrereleases(a, b) ==
  IF a = b THEN 0 ELSE ComparePartsFrom(SplitDots(a), SplitDots(b), 1)

\* the jagged segment loop of (*Version).Compare
RECURSIVE CompareSegmentsFrom(_, _, _)
CompareSegmentsFrom(sa, sb, i) ==
  IF i > Len(sa) /\ i > Len(sb) THEN 0
  ELSE IF i > Len(sa) THEN (IF AllZero(SubSeq(sb, i, Len(sb))) THEN 0 ELSE -1)
  ELSE IF i > Len(sb) THEN (IF AllZero(SubSeq(sa, i, Len(sa))) THEN 0 ELSE 1)
  ELSE IF sa[i] = sb[i] THEN CompareSegmentsFrom(sa, sb, i + 1)
  ELSE IF sa[i] < sb[i] THEN -1
  ELSE 1

\* (*Version).Compare: -1, 0 or 1; build metadata takes no part
Compare(v, o) ==
  IF String(v) = String(o) THEN 0
  ELSE IF v.segments = o.segments
       THEN IF Len(v.pre) = 0 /\ Len(o.pre) = 0 THEN 0
            ELSE IF Len(v.pre) = 0 THEN 1
            ELSE IF Len(o.pre) = 0 THEN -1
            ELSE ComparePrereleases(v.pre, o.pre)
       ELSE CompareSegmentsFrom(v.segments, o.segments, 1)

\* (*Version).GreaterThan
GreaterThan(v, o) == Compare(v, o) > 0


\* ------------------------------------------------------------ inputs
RefsTags == <<"r", "e", "f", "s", "/", "t", "a", "g", "s", "/">>

\* tag names a repository may hold before the first run, in name order:
\* nav, s/v1.0.0, v0.0.0, v1.0.0-a, v1.2, v1.2.3+ab, v1.2.3.4, v9.9.9
TagPool ==
  <<<<"n", "a", "v">>,
    <<"s", "/", "v", "1", ".", "0", ".", "0">>,
    <<"v", "0", ".", "0", ".", "0">>,
    <<"v", "1", ".", "0", ".", "0", "-", "a">>,
    <<"v", "1", ".", "2">>,
    <<"v", "1", ".", "2", ".", "3", "+", "a", "b">>,
    <<"v", "1", ".", "2", ".", "3", ".", "4">>,
    <<"v", "9", ".", "9", ".", "9">>>>

\* TAG_PREFIX: unset, or "s/" (a Go module in a subdirectory)
Prefixes == {<<>>, <<"s", "/">>}

\* FILE_REGEXP: unset (".*"), or "\.go$"
FileRegexps == {".*", "\\.go$"}

\* GITHUB_EVENT_NAME
Triggers == {"pull_request", "push"}

\* GITHUB_TOKEN: unset or set
Tokens == {"", "t"}

\* changed file names of a comparison: a.go, doc/a, go.md
FileNames == {<<"a", ".", "g", "o">>, <<"d", "o", "c", "/", "a">>, <<"g", "o", ".", "m", "d">>}

\* the merge commit of the triggering pull request
Shas == {"c1"}

\* the environment of the workflow step (README: env of the autotag step)
Envs ==
  [NO_EX_CONFIG : {"true", ""}, NEVER_FAIL : {"true", ""},
   FILE_REGEXP : FileRegexps, TAG_PREFIX : Prefixes]

\* the file at GITHUB_EVENT_PATH: unreadable, not JSON, or a pull request event
Payloads ==
  [kind : {"unreadable", "malformed"}, action : {"closed"}, merged : {FALSE},
   sha : {""}]
  \cup [kind : {"event"}, action : {"closed", "opened"}, merged : BOOLEAN,
        sha : Shas \cup {""}]

\* sequences of at most n elements of S
SeqsUpTo(S, n) == UNION {[1..k -> S] : k \in 0..n}

\* the refs of the hosting service are listed in name order
RECURSIVE InsertSorted(_, _)
InsertSorted(refs, name) ==
  IF Len(refs) = 0 THEN <<name>>
  ELSE IF StrGreater(refs[1], name) THEN <<name>> \o refs
  ELSE <<refs[1]>> \o InsertSorted(Tail(refs), name)

\* the pool's tags at the indices I, as refs in name order
RECURSIVE RefsOf(_, _)
RefsOf(I, i) ==
  IF i > Len(TagPool) THEN <<>>
  ELSE (IF i \in I THEN <<RefsTags \o TagPool[i]>> ELSE <<>>) \o RefsOf(I, i + 1)

InitialRepos ==
  {RefsOf(I, 1) : I \in {J \in SUBSET (1..Len(TagPool)) : Cardinality(J) <= MaxInitTags}}


\* ------------------------------------------------------------ state
VARIABLES
  env,        \* the step's environment: NO_EX_CONFIG, NEVER_FAIL, FILE_REGEXP, TAG_PREFIX
  tags,       \* the repository's tag refs, in listing order
  pc,         \* where each run of main is
  triggerName,\* main.go:62
  se,         \* main.go:83  the event read from GITHUB_EVENT_PATH
  exConfig,   \* main.go:27, per process
  fatalExit,  \* main.go:28, per process
  ref,        \* main.go:93  the merge commit
  page,       \* main.go:148 getLastVersion's page
  last,       \* main.go:143 getLastVersion's last, then main's lastVersion
  version,    \* main.go:115 the tag name to create
  tagReqs,    \* the CreateRef requests each run has issued
  commentReqs,\* the CreateComment requests each run has issued
  exitCode,   \* the process's exit status
  exitAt,     \* the place in main that ended the run
  call        \* arguments and result of the last direct call of shouldTag

vars == <<env, tags, pc, triggerName, se, exConfig, fatalExit, ref, page, last, version,
          tagReqs, commentReqs, exitCode, exitAt, call>>

\* version.NewSemver("v0.0.0"), main.go:143
V000 == NewSemver(<<"v", "0", ".", "0", ".", "0">>)

\* no event has been read
NoEvent == [kind |-> "none", action |-> "", merged |-> FALSE, sha |-> ""]

\* shouldTag has not been called directly
NoCall == [files |-> <<>>, fileMatch |-> "", result |-> FALSE, made |-> FALSE]

Init ==
  /\ env \in Envs
  /\ tags \in InitialRepos
  /\ call = NoCall
  /\ pc = [r \in Runs |-> "start"]
  /\ triggerName = [r \in Runs |-> ""]
  /\ se = [r \in Runs |-> NoEvent]
  /\ exConfig = [r \in Runs |-> EX_CONFIG]
  /\ fatalExit = [r \in Runs |-> FATAL_EXIT]
  /\ ref = [r \in Runs |-> ""]
  /\ page = [r \in Runs |-> 0]
  /\ last = [r \in Runs |-> NoVersion]
  /\ version = [r \in Runs |-> <<>>]
  /\ tagReqs = [r \in Runs |-> <<>>]
  /\ commentReqs = [r \in Runs |-> <<>>]
  /\ exitCode = [r \in Runs |-> -1]
  /\ exitAt = [r \in Runs |-> "running"]

\* ------------------------------------------------------------ functions
\* main.go:43-45
ExConfigFromEnv(e) == IF e.NO_EX_CONFIG = "true" THEN 0 ELSE EX_CONFIG

\* a slip: NEVER_FAIL read before NO_EX_CONFIG has changed exConfig
FatalExitFromEnv_BeforeNoExConfig(e) ==
  IF e.NEVER_FAIL = "true" THEN EX_CONFIG ELSE FATAL_EXIT

\* main.go:48-50, after exConfig has been set
FatalExitFromEnv(e) == IF e.NEVER_FAIL = "true" THEN ExConfigFromEnv(e) ELSE FATAL_EXIT

\* (*Regexp).MatchString of the compiled FILE_REGEXP: an unanchored search
MatchString(re, name) ==
  CASE re = ".*" -> TRUE
    [] re = "\\.go$" -> HasSuffix(name, <<".", "g", "o">>)

\* a slip: && for ||
NotReady_And(ev) == ev.action # "closed" /\ ~ev.merged

\* main.go:88: the pull request is not closed and merged
NotReady(ev) == ev.action # "closed" \/ ~ev.merged

\* a slip: compared with the string the base version was parsed from
IsBaseVersion_WithV(l) == String(l) = <<"v", "0", ".", "0", ".", "0">>

\* main.go:185: last is still the base version
IsBaseVersion(l) == String(l) = <<"0", ".", "0", ".", "0">>

\* main.go:161-174: the loop over one page's refs
RECURSIVE ScanRefs(_, _, _)
ScanRefs(refs, prefix, l) ==
  IF Len(refs) = 0 THEN l
  ELSE LET tag == TrimPrefix(refs[1], RefsTags \o prefix)
           v == NewSemver(tag)
       IN IF ~v.ok THEN ScanRefs(Tail(refs), prefix, l)
          ELSE IF GreaterThan(v, l) THEN ScanRefs(Tail(refs), prefix, v)
          ELSE ScanRefs(Tail(refs), prefix, l)

\* ListRefs: the refs of page p
PageOf(refs, p) ==
  SubSeq(refs, (p - 1) * PageSize + 1,
         IF p * PageSize < Len(refs) THEN p * PageSize ELSE Len(refs))

\* a slip: the loop stops after the first page
HasNext_FirstPageOnly(refs, p) == FALSE

\* main.go:177-178: the response's Link header has rel="next"
HasNext(refs, p) == p * PageSize < Len(refs)

\* a slip: only the first changed file is looked at
shouldTag_FirstFileOnly(files, fileMatch) ==
  Len(files) > 0 /\ MatchString(fileMatch, files[1])

\* main.go:200-206
RECURSIVE shouldTag(_, _)
shouldTag(files, fileMatch) ==
  IF Len(files) = 0 THEN FALSE
  ELSE IF MatchString(fileMatch, files[1]) THEN TRUE
  ELSE shouldTag(Tail(files), fileMatch)

\* a slip: the version is formatted whole, build metadata included
nextVersion_KeepsMetadata(v, prefix) ==
  prefix \o <<"v">>
    \o String([v EXCEPT !.segments = <<v.segments[1], v.segments[2], v.segments[3] + 1>>])

\* a slip: the patch segment is not incremented
nextVersion_NoBump(v, prefix) ==
  prefix \o <<"v">> \o FormatInt(v.segments[1]) \o <<".">> \o FormatInt(v.segments[2])
    \o <<".">> \o FormatInt(v.segments[3])

\* main.go:209-217
nextVersion(v, prefix) ==
  LET segs == Segments(v)
      diff == 3 - Len(segs)
      padded == segs \o [i \in 1..(IF diff > 0 THEN diff ELSE 0) |-> 0]
  IN prefix \o <<"v">> \o FormatInt(padded[1]) \o <<".">> \o FormatInt(padded[2])
       \o <<".">> \o FormatInt(padded[3] + 1)

\* ------------------------------------------------------------ actions
\* os.Exit(code), or main returning (code 0), at the place `at`
Exit(r, code, at) ==
  /\ pc' = [pc EXCEPT ![r] = "exit"]
  /\ exitCode' = [exitCode EXCEPT ![r] = code]
  /\ exitAt' = [exitAt EXCEPT ![r] = at]

\* main.go:220-223: exits with fatalExit as it is when fatal is called
fatal(r, at) == Exit(r, fatalExit'[r], at)

\* main.go:42-101: from the start of main to the call of getLastVersion
Start(r) ==
  /\ pc[r] = "start"
  /\ \E trig \in Triggers, tok \in Tokens, ev \in Payloads :
       /\ exConfig' = [exConfig EXCEPT ![r] = ExConfigFromEnv(env)]
       /\ fatalExit' = [fatalExit EXCEPT ![r] = FatalExitFromEnv(env)]
       /\ triggerName' = [triggerName EXCEPT ![r] = trig]
       /\ IF trig # "pull_request"
          THEN Exit(r, exConfig'[r], "trigger") /\ UNCHANGED <<se, ref, page, last>>
          ELSE IF tok = ""
          THEN fatal(r, "token") /\ UNCHANGED <<se, ref, page, last>>
          ELSE IF ev.kind = "unreadable"
          THEN fatal(r, "read") /\ UNCHANGED <<se, ref, page, last>>
          ELSE IF ev.kind = "malformed"
          THEN fatal(r, "unmarshal") /\ UNCHANGED <<se, ref, page, last>>
          ELSE /\ se' = [se EXCEPT ![r] = ev]
               /\ IF NotReady(ev)
                  THEN Exit(r, exConfig'[r], "notmerged") /\ UNCHANGED <<ref, page, last>>
                  ELSE IF ev.sha = ""
                  THEN fatal(r, "nocommit") /\ UNCHANGED <<ref, page, last>>
                  ELSE /\ ref' = [ref EXCEPT ![r] = ev.sha]
                       /\ page' = [page EXCEPT ![r] = 1]
                       /\ last' = [last EXCEPT ![r] = V000]
                       /\ pc' = [pc EXCEPT ![r] = "list"]
                       /\ UNCHANGED <<exitCode, exitAt>>
  /\ UNCHANGED <<env, tags, version, tagReqs, commentReqs, call>>

\* main.go:149-189 and 103-106: one ListRefs call of getLastVersion's loop,
\* and after the last page the function's result
ListRefs(r) ==
  /\ pc[r] = "list"
  /\ UNCHANGED <<env, tags, triggerName, se, exConfig, fatalExit, ref, version,
               tagReqs, commentReqs, call>>
  /\ \E err \in BOOLEAN :
       IF err
       THEN fatal(r, "listrefs") /\ UNCHANGED <<page, last>>
       ELSE LET l == ScanRefs(PageOf(tags, page[r]), env.TAG_PREFIX, last[r])
            IN /\ last' = [last EXCEPT ![r] = l]
               /\ IF HasNext(tags, page[r])
                  THEN /\ page' = [page EXCEPT ![r] = page[r] + 1]
                       /\ UNCHANGED <<pc, exitCode, exitAt>>
                  ELSE /\ UNCHANGED page
                       /\ IF IsBaseVersion(l)
                          THEN fatal(r, "noversions")
                          ELSE /\ pc' = [pc EXCEPT ![r] = "compare"]
                               /\ UNCHANGED <<exitCode, exitAt>>

\* main.go:108-115 and 192-207: shouldTag's CompareCommits call and main's
\* decision
CompareCommits(r) ==
  /\ pc[r] = "compare"
  /\ UNCHANGED <<env, tags, triggerName, se, exConfig, fatalExit, ref, page, last,
               tagReqs, commentReqs, call>>
  /\ \E err \in BOOLEAN, files \in SeqsUpTo(FileNames, MaxFiles) :
       IF err
       THEN fatal(r, "compare") /\ UNCHANGED version
       ELSE IF ~shouldTag(files, env.FILE_REGEXP)
       THEN Exit(r, EXIT_OK, "nomatch") /\ UNCHANGED version
       ELSE /\ version' = [version EXCEPT ![r] = nextVersion(last[r], env.TAG_PREFIX)]
            /\ pc' = [pc EXCEPT ![r] = "createref"]
            /\ UNCHANGED <<exitCode, exitAt>>

\* a slip: the error of CreateRef is dropped
Failed_Never(err) == FALSE

\* a slip: an existing ref is taken for a created one
Failed_UnlessExists(err) == err \notin {"none", "exists"}

\* main.go:121: err != nil after CreateRef
Failed(err) == err # "none"

\* The hosting service's answer to Git.CreateRef (main.go:117): it refuses a
\* ref that exists, and may fail for its own reasons.
CreateRefError(refs, name, apiErr) ==
  IF \E i \in 1..Len(refs) : refs[i] = name THEN "exists"
  ELSE IF apiErr THEN "api"
  ELSE "none"

\* main.go:117-125: the Git.CreateRef call
CreateRef(r) ==
  /\ pc[r] = "createref"
  /\ UNCHANGED <<env, triggerName, se, exConfig, fatalExit, ref, page, last, version,
                 commentReqs, call>>
  /\ \E apiErr \in BOOLEAN :
       LET name == RefsTags \o version[r]
           err == CreateRefError(tags, name, apiErr)
       IN /\ tagReqs' = [tagReqs EXCEPT ![r] =
               Append(@, [ref |-> name, sha |-> ref[r], type |-> "commit", err |-> err])]
          /\ tags' = IF err = "none" THEN InsertSorted(tags, name) ELSE tags
          /\ IF Failed(err)
             THEN fatal(r, "createref")
             ELSE /\ pc' = [pc EXCEPT ![r] = "comment"]
                  /\ UNCHANGED <<exitCode, exitAt>>

\* main.go:127-134: the Issues.CreateComment call and the end of main
CreateComment(r) ==
  /\ pc[r] = "comment"
  /\ UNCHANGED <<env, tags, triggerName, se, exConfig, fatalExit, ref, page, last,
               version, tagReqs, call>>
  /\ \E err \in BOOLEAN :
       /\ commentReqs' = [commentReqs EXCEPT ![r] =
            Append(@, [version |-> version[r], err |-> err])]
       /\ IF err THEN fatal(r, "comment") ELSE Exit(r, EXIT_OK, "done")

Next ==
  \E r \in Runs :
    \/ Start(r)
    \/ ListRefs(r)
    \/ CompareCommits(r)
    \/ CreateRef(r)
    \/ CreateComment(r)

Spec == Init /\ [][Next]_vars

\* Runs one after the other: a run starts only when no other run is under way
\* (each run is a fresh process; the workflow is not triggered concurrently).
Idle(r) == pc[r] \in {"start", "exit"}

StartSeq(r) == (\A q \in Runs \ {r} : Idle(q)) /\ Start(r)

NextSeq ==
  \E r \in Runs :
    \/ StartSeq(r)
    \/ ListRefs(r)
    \/ CompareCommits(r)
    \/ CreateRef(r)
    \/ CreateComment(r)

SpecSeq == Init /\ [][NextSeq]_vars

\* shouldTag alone (main.go:192-207), called with any comparison result and
\* the compiled FILE_REGEXP
InitShouldTag ==
  /\ Init
  /\ tags = <<>>

CallShouldTag ==
  /\ \E files \in SeqsUpTo(FileNames, MaxFiles) :
       call' = [files |-> files, fileMatch |-> env.FILE_REGEXP,
                result |-> shouldTag(files, env.FILE_REGEXP), made |-> TRUE]
  /\ UNCHANGED <<env, tags, pc, triggerName, se, exConfig, fatalExit, ref, page,
                 last, version, tagReqs, commentReqs, exitCode, exitAt>>

NextShouldTag == CallShouldTag

SpecShouldTag == InitShouldTag /\ [][NextShouldTag]_vars


\* ------------------------------------------------------------ properties
\* The tag refs that carry "refs/tags/" + TAG_PREFIX, and what follows it.
Prefixed(t) == HasPrefix(t, RefsTags \o env.TAG_PREFIX)
Remainder(t) == SubSeq(t, Len(RefsTags) + Len(env.TAG_PREFIX) + 1, Len(t))

\* The versions of the prefixed tags whose remainder is a semantic version.
Candidates ==
  {NewSemver(Remainder(tags[i])) :
     i \in {j \in 1..Len(tags) : Prefixed(tags[j]) /\ NewSemver(Remainder(tags[j])).ok}}

\* Semver precedence, stated on its own: the numeric segments (zero-padded to
\* the same length) in lexicographic order, then a pre-release below its release.
ZeroPad(segs, n) == segs \o [i \in 1..(n - Len(segs)) |-> 0]
SemverLess(a, b) ==
  LET n == IF Len(a.segments) > Len(b.segments) THEN Len(a.segments) ELSE Len(b.segments)
      sa == ZeroPad(a.segments, n)
      sb == ZeroPad(b.segments, n)
      D == {i \in 1..n : sa[i] # sb[i]}
  IN IF D # {}
     THEN LET k == CHOOSE i \in D : \A j \in D : i <= j IN sa[k] < sb[k]
     ELSE /\ a.pre # b.pre
          /\ a.pre # <<>>
          /\ (b.pre = <<>> \/ ComparePrereleases(a.pre, b.pre) < 0)

\* The run is past getLastVersion, which returned a version.
Resolved(r) ==
  \/ pc[r] \in {"compare", "createref", "comment"}
  \/ exitAt[r] \in {"compare", "nomatch", "createref", "comment", "done"}

\* prefix + "v" + a.b.(c+1) for the version v = a.b.c...
ExpectedNext(v, prefix) ==
  prefix \o <<"v">>
    \o String([ok |-> TRUE, pre |-> <<>>, metadata |-> <<>>,
               segments |-> <<v.segments[1], v.segments[2], v.segments[3] + 1>>])

Zero == <<"0", ".", "0", ".", "0">>

\* C1: when getLastVersion returns a version, it is the version of one of the
\* tags that carry refs/tags/+prefix and parse, and no such tag on any page has
\* a higher version; tags that do not parse or lack the prefix do not count,
\* and the resolver reports "no versions" only when no candidate is above 0.0.0.
C1_LastIsMaximum ==
  \A r \in Runs :
    /\ pc[r] = "compare" =>
         /\ last[r] \in Candidates
         /\ \A c \in Candidates : ~SemverLess(last[r], c)
    /\ exitAt[r] = "noversions" => \A c \in Candidates : ~SemverLess(V000, c)

\* C1 witness: with prefix "s/", the resolver has gone through more than one
\* page holding an unprefixed higher tag and returned the prefixed 1.0.0.
C1_Witness ==
  \E r \in Runs :
    /\ pc[r] = "compare"
    /\ env.TAG_PREFIX # <<>>
    /\ Len(tags) > PageSize
    /\ \E i \in 1..Len(tags) : ~Prefixed(tags[i]) /\ tags[i] = RefsTags \o TagPool[8]
    /\ String(last[r]) = <<"1", ".", "0", ".", "0">>

C3_NextVersionBumpsPatch ==
  \A r \in Runs :
    pc[r] \in {"createref", "comment"} =>
      LET out == version[r]
          parsed == NewSemver(SubSeq(out, Len(env.TAG_PREFIX) + 1, Len(out)))
          segs == last[r].segments
      IN /\ HasPrefix(out, env.TAG_PREFIX \o <<"v">>)
         /\ parsed.ok
         /\ parsed.segments = <<segs[1], segs[2], segs[3] + 1>>
         /\ parsed.pre = <<>>
         /\ parsed.metadata = <<>>
         /\ out = ExpectedNext(last[r], env.TAG_PREFIX)

\* C3 witness: the next version of v1.2.3+ab has been computed.
C3_Witness ==
  \E r \in Runs :
    /\ pc[r] = "createref"
    /\ last[r].metadata # <<>>
    /\ version[r] = env.TAG_PREFIX \o <<"v", "1", ".", "2", ".", "4">>

\* C4: shouldTag is true exactly when some changed file name matches the
\* pattern; it is false for no changed files, and true for ".*" and any
\* changed file.
C4_ShouldTagIffSomeFileMatches ==
  call.made =>
    /\ call.result = (\E i \in 1..Len(call.files) : MatchString(call.fileMatch, call.files[i]))
    /\ (call.files = <<>> => ~call.result)
    /\ (call.fileMatch = ".*" /\ call.files # <<>> => call.result)

\* C4 witness: the pattern is not ".*", the first changed file does not match
\* and a later one does.
C4_Witness ==
  /\ call.made
  /\ call.result
  /\ call.fileMatch # ".*"
  /\ Len(call.files) > 1
  /\ ~MatchString(call.fileMatch, call.files[1])

\* C5: each skip (not a pull_request trigger, pull request not closed and
\* merged, no changed file matching) ends the run with the no-op status: 78,
\* or 0 with NO_EX_CONFIG=true.
C5_SkipsExitNoOp ==
  \A r \in Runs :
    exitAt[r] \in {"trigger", "notmerged", "nomatch"} =>
      exitCode[r] = (IF env.NO_EX_CONFIG = "true" THEN 0 ELSE 78)

FatalPlaces ==
  {"token", "read", "unmarshal", "nocommit", "listrefs", "noversions", "compare",
   "createref", "comment"}

\* C6: a run ended by a failure exits with the no-op status (78, or 0 with
\* NO_EX_CONFIG=true) when NEVER_FAIL=true, and with 1 otherwise.
C6_NeverFailRemapsFailures ==
  \A r \in Runs :
    exitAt[r] \in FatalPlaces =>
      exitCode[r] = (IF env.NEVER_FAIL = "true"
                     THEN (IF env.NO_EX_CONFIG = "true" THEN 0 ELSE 78)
                     ELSE 1)

\* C6 witness: NEVER_FAIL and NO_EX_CONFIG are both set and a run without a
\* token has ended with status 0.
C6_Witness ==
  \E r \in Runs :
    /\ exitAt[r] = "token"
    /\ env.NEVER_FAIL = "true"
    /\ env.NO_EX_CONFIG = "true"
    /\ exitCode[r] = 0

\* C7: a run issues at most one tag creation, and only for a pull_request
\* event that is closed and merged with a merge commit, after the resolver
\* returned a version and a changed file matched; the request is for
\* refs/tags/<next version> at the merge commit with type "commit"; a run
\* without a tag request issues no comment.
C7_OneTagRequestOnlyWhenMerged ==
  \A r \in Runs :
    /\ Len(tagReqs[r]) <= 1
    /\ Len(tagReqs[r]) = 1 =>
         /\ triggerName[r] = "pull_request"
         /\ se[r].kind = "event"
         /\ se[r].action = "closed"
         /\ se[r].merged
         /\ se[r].sha # ""
         /\ Resolved(r)
         /\ exitAt[r] # "nomatch"
         /\ tagReqs[r][1].ref = RefsTags \o ExpectedNext(last[r], env.TAG_PREFIX)
         /\ tagReqs[r][1].sha = se[r].sha
         /\ tagReqs[r][1].type = "commit"
    /\ Len(tagReqs[r]) = 0 => Len(commentReqs[r]) = 0
    /\ exitAt[r] = "nomatch" => Len(tagReqs[r]) = 0

\* C7 witness: a run has created its tag.
C7_Witness ==
  \E r \in Runs : Len(tagReqs[r]) = 1 /\ tagReqs[r][1].err = "none"

\* C8: a comment is requested only after the run's tag creation succeeded; a
\* run whose comment fails ends through fatal, after one comment request, and
\* its tag is still in the repository.
C8_CommentOnlyAfterTag ==
  \A r \in Runs :
    /\ Len(commentReqs[r]) > 0 =>
         /\ Len(commentReqs[r]) = 1
         /\ Len(tagReqs[r]) = 1
         /\ tagReqs[r][1].err = "none"
    /\ exitAt[r] = "comment" =>
         /\ exitCode[r] = fatalExit[r]
         /\ commentReqs[r][1].err
         /\ \E i \in 1..Len(tags) : tags[i] = tagReqs[r][1].ref
    /\ exitAt[r] = "createref" => tagReqs[r][1].err # "none" /\ commentReqs[r] = <<>>

\* C8 witness: a run has ended because its comment failed.
C8_Witness ==
  \E r \in Runs : exitAt[r] = "comment"

\* C9: when two runs request the same tag and one creates it, the tag is in
\* the repository once, and the other run was refused, ended through fatal
\* and issued no comment; a run refused because the ref exists always ends so.
C9_DuplicateTagIsAnError ==
  \A r \in Runs :
    /\ \A q \in Runs \ {r} :
         (/\ Len(tagReqs[r]) = 1
          /\ Len(tagReqs[q]) = 1
          /\ tagReqs[r][1].ref = tagReqs[q][1].ref
          /\ tagReqs[r][1].err = "none")
         => /\ tagReqs[q][1].err # "none"
            /\ Cardinality({i \in 1..Len(tags) : tags[i] = tagReqs[r][1].ref}) = 1
            /\ exitAt[q] = "createref"
            /\ exitCode[q] = fatalExit[q]
            /\ commentReqs[q] = <<>>
    /\ (Len(tagReqs[r]) = 1 /\ tagReqs[r][1].err = "exists")
         => /\ exitAt[r] = "createref"
            /\ exitCode[r] = fatalExit[r]
            /\ commentReqs[r] = <<>>

\* C9 witness: two runs resolved the same last version, one created the tag
\* and the other was refused because the ref exists.
C9_Witness ==
  \E r \in Runs, q \in Runs :
    /\ r # q
    /\ last[r] = last[q]
    /\ Len(tagReqs[r]) = 1 /\ tagReqs[r][1].err = "none"
    /\ Len(tagReqs[q]) = 1 /\ tagReqs[q][1].err = "exists"
    /\ tagReqs[q][1].ref = tagReqs[r][1].ref

\* The version a successful run tagged.
Tagged(q) == NewSemver(SubSeq(tagReqs[q][1].ref,
                              Len(RefsTags) + Len(env.TAG_PREFIX) + 1,
                              Len(tagReqs[q][1].ref)))
Succeeded == {q \in Runs : Len(tagReqs[q]) = 1 /\ tagReqs[q][1].err = "none"}

\* C10: with runs one after the other, the version a run is about to tag is
\* above every parsable prefixed tag, its name is not in the repository, no
\* request is refused because the ref exists, and a run's resolver returns the
\* version the latest successful earlier run tagged.
C10_SequentialRunsAdvance ==
  \A r \in Runs :
    /\ pc[r] = "createref" =>
         /\ \A c \in Candidates :
              SemverLess(c, NewSemver(SubSeq(version[r], Len(env.TAG_PREFIX) + 1,
                                             Len(version[r]))))
         /\ \A i \in 1..Len(tags) : tags[i] # RefsTags \o version[r]
    /\ Len(tagReqs[r]) = 1 => tagReqs[r][1].err # "exists"
    /\ (pc[r] = "compare" /\ Succeeded # {}) =>
         /\ \E q \in Succeeded : last[r] = Tagged(q)
         /\ \A q \in Succeeded : ~SemverLess(last[r], Tagged(q))

\* C10 witness: a run has resolved the version an earlier run tagged.
C10_Witness ==
  \E r \in Runs :
    /\ pc[r] = "compare"
    /\ \E q \in Succeeded : last[r] = Tagged(q)

=============================================================================
